---- MODULE Spec2Model ----
(***************************************************************************)
(* Scene-Builder pipeline (src/src/app/agents/pipeline.py) and its schema  *)
(* (src/src/app/core/schema.py).                                           *)
(*                                                                         *)
(* A Python str is a sequence of one-character strings; the backtick is    *)
(* written "backtick" (one element).  Python values (json / dict / list)   *)
(* are tagged records, see the section "Python values".                    *)
(***************************************************************************)
EXTENDS Integers, Sequences, FiniteSets, TLC

VARIABLES
    x,              \* sanitizer input (SpecSanitizer)
    once,           \* _clean_gemini_json(x)
    twice,          \* _clean_gemini_json(_clean_gemini_json(x))
    san_pc,         \* "in", "once", "twice", or "off" under Spec
    prompt,         \* run_pipeline's prompt
    constraints,    \* run_pipeline's constraints: None or a SceneInputConstraints
    gemini_key,     \* os.getenv("GEMINI_API_KEY") is set and non-empty
    genai,          \* _get_gemini() returns the client library
    adapter,        \* how lines 136-211 ended: "idle", "no_key", "no_lib", "raised", "returned"
    response,       \* what model.generate_content returned (NoResponse when it did not)
    raw_output,     \* run_pipeline's raw_output
    mock_scene,     \* the fallback document of lines 215-241, None when not built
    cleaned_output, \* _clean_gemini_json(raw_output)
    parsed,         \* json.loads(cleaned_output), as given to the normalizer
    result,         \* the returned {"plan": ..., "scene": ...}
    error,          \* the exception run_pipeline raised, "none" when none
    pc              \* "start", "called", "ready", "parsed", "returned", "raised"; "off" under SpecSanitizer

san_vars == <<x, once, twice, san_pc>>
run_vars == <<prompt, constraints, gemini_key, genai, adapter, response, raw_output,
              mock_scene, cleaned_output, parsed, result, error, pc>>
vars == <<san_vars, run_vars>>

(***************************************************************************)
(* Strings                                                                 *)
(***************************************************************************)
\* Python's None where a str is expected: no str has a multi-character element
None == <<"<None>">>

\* str.strip() whitespace occurring in the texts of this model
Whitespace == {" ", "\n", "\t", "\r"}

UpperCase == <<"A","B","C","D","E","F","G","H","I","J","K","L","M","N","O","P","Q","R","S","T","U","V","W","X","Y","Z">>
LowerCase == <<"a","b","c","d","e","f","g","h","i","j","k","l","m","n","o","p","q","r","s","t","u","v","w","x","y","z">>

\* str.lower() of one character
LowerChar(c) ==
    IF \E i \in 1..26 : UpperCase[i] = c
    THEN LowerCase[CHOOSE i \in 1..26 : UpperCase[i] = c]
    ELSE c

Lower(s) == [i \in 1..Len(s) |-> LowerChar(s[i])]

RECURSIVE LSkip(_, _, _)
\* first index >= i whose character is not in set (Len(s)+1 when none)
LSkip(s, i, set) ==
    IF i > Len(s) \/ s[i] \notin set THEN i ELSE LSkip(s, i + 1, set)

RECURSIVE RSkip(_, _, _)
\* last index <= i whose character is not in set (0 when none)
RSkip(s, i, set) ==
    IF i < 1 \/ s[i] \notin set THEN i ELSE RSkip(s, i - 1, set)

\* str.strip(chars)
StripChars(s, set) == SubSeq(s, LSkip(s, 1, set), RSkip(s, Len(s), set))

\* str.strip()
Strip(s) == StripChars(s, Whitespace)

\* str.startswith(p)
StartsWith(s, p) == Len(s) >= Len(p) /\ SubSeq(s, 1, Len(p)) = p

RECURSIVE FindFrom(_, _, _)
\* str.find(c): 0-based index of the first c at 1-based index >= i, else -1
FindFrom(s, c, i) ==
    IF i > Len(s) THEN -1
    ELSE IF s[i] = c THEN i - 1
    ELSE FindFrom(s, c, i + 1)

Find(s, c) == FindFrom(s, c, 1)

RECURSIVE RFindFrom(_, _, _)
\* str.rfind(c): 0-based index of the last c at 1-based index <= i, else -1
RFindFrom(s, c, i) ==
    IF i < 1 THEN -1
    ELSE IF s[i] = c THEN i - 1
    ELSE RFindFrom(s, c, i - 1)

RFind(s, c) == RFindFrom(s, c, Len(s))

\* Python slice text[a:b] for 0 <= a, 0 <= b
Slice(s, a, b) == SubSeq(s, a + 1, IF b > Len(s) THEN Len(s) ELSE b)

Fence == <<"backtick","backtick","backtick">>
JsonTag == <<"j","s","o","n">>

RECURSIVE RemoveFences(_)
\* str.replace("```", ""): leftmost, non-overlapping occurrences removed
RemoveFences(s) ==
    IF s = << >> THEN << >>
    ELSE IF StartsWith(s, Fence) THEN RemoveFences(SubSeq(s, 4, Len(s)))
    ELSE <<s[1]>> \o RemoveFences(Tail(s))

(***************************************************************************)
(* _clean_gemini_json                                                      *)
(***************************************************************************)
\* lines 29-33: the fence branch
StripFence(text) ==
    IF StartsWith(text, Fence)
    THEN LET t1 == StripChars(text, {"backtick"})
             t2 == IF StartsWith(Lower(t1), JsonTag) THEN Slice(t1, 4, Len(t1)) ELSE t1
         IN  RemoveFences(t2)
    ELSE text

\* lines 34-37, text[start:end + 1] dropping the closing brace
SliceBracesOffByOne(text) ==
    LET start == Find(text, "{")
        end   == RFind(text, "}")
    IN  IF start # -1 /\ end # -1 THEN Slice(text, start, end) ELSE text

\* lines 34-37: the span from the first "{" to the last "}"
SliceBraces(text) ==
    LET start == Find(text, "{")
        end   == RFind(text, "}")
    IN  IF start # -1 /\ end # -1 THEN Slice(text, start, end + 1) ELSE text

\* _clean_gemini_json(text)
CleanGeminiJson(text) ==
    IF text = None \/ text = << >> THEN text
    ELSE Strip(SliceBraces(StripFence(Strip(text))))

(***************************************************************************)
(* Python values: what json.loads returns and what the pipeline builds.    *)
(* A dict keeps its insertion order: items is a sequence of <<key, value>>.*)
(* Numbers are integer-valued; a float carries its integer value.          *)
(***************************************************************************)
VNone == [t |-> "none"]
VBool(b) == [t |-> "bool", b |-> b]
VInt(n) == [t |-> "int", n |-> n]
VFloat(n) == [t |-> "float", n |-> n]
VStr(s) == [t |-> "str", s |-> s]
VList(xs) == [t |-> "list", xs |-> xs]
VDict(items) == [t |-> "dict", items |-> items]

IsDict(v) == v.t = "dict"
IsList(v) == v.t = "list"
IsStr(v) == v.t = "str"
IsNum(v) == v.t \in {"int", "float"}

\* key in d
HasKey(d, k) == \E i \in 1..Len(d.items) : d.items[i][1] = k

\* d[k]
Item(d, k) == d.items[CHOOSE i \in 1..Len(d.items) : d.items[i][1] = k][2]

\* d.get(k, default)
Get(d, k, default) == IF HasKey(d, k) THEN Item(d, k) ELSE default

\* d[k] = v: an existing key keeps its place
SetItem(d, k, v) ==
    IF HasKey(d, k)
    THEN VDict([i \in 1..Len(d.items) |->
                    IF d.items[i][1] = k THEN <<k, v>> ELSE d.items[i]])
    ELSE VDict(Append(d.items, <<k, v>>))

\* Python truthiness: bool(v)
Truthy(v) ==
    CASE v.t = "none" -> FALSE
      [] v.t = "bool" -> v.b
      [] v.t \in {"int", "float"} -> v.n # 0
      [] v.t = "str" -> v.s # << >>
      [] v.t = "list" -> v.xs # << >>
      [] v.t = "dict" -> v.items # << >>

(***************************************************************************)
(* json.dumps (default separators, ensure_ascii) on None, bool, int, str,  *)
(* list and dict                                                           *)
(***************************************************************************)
Digits == <<"0","1","2","3","4","5","6","7","8","9">>

RECURSIVE NatDigits(_)
NatDigits(n) ==
    IF n < 10 THEN <<Digits[n + 1]>>
    ELSE Append(NatDigits(n \div 10), Digits[(n % 10) + 1])

\* str(n) for an int
IntDigits(n) == IF n < 0 THEN <<"-">> \o NatDigits(0 - n) ELSE NatDigits(n)

EscapeChar(c) ==
    CASE c = "\"" -> <<"\\", "\"">>
      [] c = "\\" -> <<"\\", "\\">>
      [] c = "\n" -> <<"\\", "n">>
      [] c = "\t" -> <<"\\", "t">>
      [] c = "\r" -> <<"\\", "r">>
      [] OTHER -> <<c>>

RECURSIVE EscapeStr(_)
EscapeStr(s) == IF s = << >> THEN << >> ELSE EscapeChar(Head(s)) \o EscapeStr(Tail(s))

DumpsStr(s) == <<"\"">> \o EscapeStr(s) \o <<"\"">>

RECURSIVE Dumps(_)
RECURSIVE DumpsItems(_, _)
RECURSIVE DumpsElems(_, _)

\* the members of a dict from index i on, joined by ", "
DumpsItems(items, i) ==
    IF i > Len(items) THEN << >>
    ELSE (IF i > 1 THEN <<",", " ">> ELSE << >>)
         \o DumpsStr(items[i][1]) \o <<":", " ">> \o Dumps(items[i][2])
         \o DumpsItems(items, i + 1)

\* the elements of a list from index i on, joined by ", "
DumpsElems(xs, i) ==
    IF i > Len(xs) THEN << >>
    ELSE (IF i > 1 THEN <<",", " ">> ELSE << >>) \o Dumps(xs[i]) \o DumpsElems(xs, i + 1)

Dumps(v) ==
    CASE v.t = "none" -> <<"n","u","l","l">>
      [] v.t = "bool" -> IF v.b THEN <<"t","r","u","e">> ELSE <<"f","a","l","s","e">>
      [] v.t = "int" -> IntDigits(v.n)
      [] v.t = "str" -> DumpsStr(v.s)
      [] v.t = "list" -> <<"[">> \o DumpsElems(v.xs, 1) \o <<"]">>
      [] v.t = "dict" -> <<"{">> \o DumpsItems(v.items, 1) \o <<"}">>

(***************************************************************************)
(* json.loads on texts whose numbers are integers and whose strings use    *)
(* the escapes json.dumps writes.  A parse result is                       *)
(* [ok, pos, val]: pos is the index after the value.                       *)
(***************************************************************************)
At(s, i) == IF i >= 1 /\ i <= Len(s) THEN s[i] ELSE "<EOF>"

PFail(i) == [ok |-> FALSE, pos |-> i, val |-> VNone]
POk(i, v) == [ok |-> TRUE, pos |-> i, val |-> v]

SkipWs(s, i) == LSkip(s, i, Whitespace)

DigitValue(c) == (CHOOSE i \in 1..10 : Digits[i] = c) - 1
IsDigit(c) == \E i \in 1..10 : Digits[i] = c

Unescape(c) ==
    CASE c = "n" -> "\n"
      [] c = "t" -> "\t"
      [] c = "r" -> "\r"
      [] OTHER -> c

RECURSIVE ParseStringBody(_, _, _)
\* the characters of a string up to its closing quote; i is inside the quotes
ParseStringBody(s, i, acc) ==
    LET c == At(s, i) IN
    CASE c = "<EOF>" -> PFail(i)
      [] c = "\"" -> POk(i + 1, acc)
      [] c = "\\" ->
            IF At(s, i + 1) \in {"\"", "\\", "/", "n", "t", "r"}
            THEN ParseStringBody(s, i + 2, Append(acc, Unescape(At(s, i + 1))))
            ELSE PFail(i)
      [] c \in {"\n", "\t", "\r"} -> PFail(i)
      [] OTHER -> ParseStringBody(s, i + 1, Append(acc, c))

RECURSIVE ParseDigits(_, _, _)
ParseDigits(s, i, acc) ==
    IF IsDigit(At(s, i)) THEN ParseDigits(s, i + 1, 10 * acc + DigitValue(At(s, i)))
    ELSE [pos |-> i, n |-> acc]

\* an integer: -? (0 | [1-9][0-9]*)
ParseNumber(s, i) ==
    LET neg == At(s, i) = "-"
        j == IF neg THEN i + 1 ELSE i
    IN  IF ~IsDigit(At(s, j)) THEN PFail(i)
        ELSE IF At(s, j) = "0" THEN POk(j + 1, VInt(0))
        ELSE LET d == ParseDigits(s, j, 0)
             IN  POk(d.pos, VInt(IF neg THEN 0 - d.n ELSE d.n))

ParseLiteral(s, i, word, v) ==
    IF SubSeq(s, i, IF i + Len(word) - 1 > Len(s) THEN Len(s) ELSE i + Len(word) - 1) = word
    THEN POk(i + Len(word), v)
    ELSE PFail(i)

RECURSIVE ParseValue(_, _)
RECURSIVE ParseMembers(_, _, _)
RECURSIVE ParseElements(_, _, _)

\* the members of an object; i is at the opening quote of a key
ParseMembers(s, i, d) ==
    IF At(s, i) # "\"" THEN PFail(i)
    ELSE
    LET k == ParseStringBody(s, i + 1, << >>)
        colon == SkipWs(s, k.pos)
        v == ParseValue(s, SkipWs(s, colon + 1))
        after == SkipWs(s, v.pos)
    IN  IF ~k.ok \/ At(s, colon) # ":" THEN PFail(i)
        ELSE IF ~v.ok THEN PFail(v.pos)
        ELSE IF At(s, after) = "}" THEN POk(after + 1, SetItem(d, k.val, v.val))
        ELSE IF At(s, after) = ","
             THEN ParseMembers(s, SkipWs(s, after + 1), SetItem(d, k.val, v.val))
        ELSE PFail(after)

\* the elements of an array; i is at the first character of an element
ParseElements(s, i, xs) ==
    LET v == ParseValue(s, i)
        after == SkipWs(s, v.pos)
    IN  IF ~v.ok THEN PFail(v.pos)
        ELSE IF At(s, after) = "]" THEN POk(after + 1, VList(Append(xs, v.val)))
        ELSE IF At(s, after) = ","
             THEN ParseElements(s, SkipWs(s, after + 1), Append(xs, v.val))
        ELSE PFail(after)

\* one JSON value starting at index i (no leading whitespace)
ParseValue(s, i) ==
    LET c == At(s, i) IN
    CASE c = "{" ->
            LET j == SkipWs(s, i + 1)
            IN  IF At(s, j) = "}" THEN POk(j + 1, VDict(<< >>))
                ELSE ParseMembers(s, j, VDict(<< >>))
      [] c = "[" ->
            LET j == SkipWs(s, i + 1)
            IN  IF At(s, j) = "]" THEN POk(j + 1, VList(<< >>))
                ELSE ParseElements(s, j, << >>)
      [] c = "\"" ->
            LET r == ParseStringBody(s, i + 1, << >>)
            IN  IF r.ok THEN POk(r.pos, VStr(r.val)) ELSE PFail(r.pos)
      [] c = "-" \/ IsDigit(c) -> ParseNumber(s, i)
      [] c = "t" -> ParseLiteral(s, i, <<"t","r","u","e">>, VBool(TRUE))
      [] c = "f" -> ParseLiteral(s, i, <<"f","a","l","s","e">>, VBool(FALSE))
      [] c = "n" -> ParseLiteral(s, i, <<"n","u","l","l">>, VNone)
      [] OTHER -> PFail(i)

\* json.loads(text): [ok, val]; not ok is a JSONDecodeError
Loads(text) ==
    LET r == ParseValue(text, SkipWs(text, 1))
    IN  IF r.ok /\ SkipWs(text, r.pos) > Len(text)
        THEN [ok |-> TRUE, val |-> r.val]
        ELSE [ok |-> FALSE, val |-> VNone]

(***************************************************************************)
(* Dictionary keys and string literals of pipeline.py and schema.py        *)
(***************************************************************************)
k_plan == <<"p","l","a","n">>
k_scenes == <<"s","c","e","n","e","s">>
k_meta == <<"m","e","t","a">>
k_assets == <<"a","s","s","e","t","s">>
k_effects == <<"e","f","f","e","c","t","s">>
k_transitions == <<"t","r","a","n","s","i","t","i","o","n","s">>
k_name == <<"n","a","m","e">>
k_type == <<"t","y","p","e">>
k_durationSec == <<"d","u","r","a","t","i","o","n","S","e","c">>
k_startSec == <<"s","t","a","r","t","S","e","c">>
k_id == <<"i","d">>
k_title == <<"t","i","t","l","e">>
k_description == <<"d","e","s","c","r","i","p","t","i","o","n">>
k_props == <<"p","r","o","p","s">>
k_src == <<"s","r","c">>
k_rows == <<"r","o","w","s">>
k_kind == <<"k","i","n","d">>
k_actions == <<"a","c","t","i","o","n","s">>
k_summary == <<"s","u","m","m","a","r","y">>
k_notes == <<"n","o","t","e","s">>
k_prompt == <<"p","r","o","m","p","t">>
k_scenesCount == <<"s","c","e","n","e","s","C","o","u","n","t">>
k_totalDurationSec == <<"t","o","t","a","l","D","u","r","a","t","i","o","n","S","e","c">>
k_aspectRatio == <<"a","s","p","e","c","t","R","a","t","i","o">>
k_fps == <<"f","p","s">>
k_language == <<"l","a","n","g","u","a","g","e">>
k_generator == <<"g","e","n","e","r","a","t","o","r">>
k_version == <<"v","e","r","s","i","o","n">>
k_processId == <<"p","r","o","c","e","s","s","I","d">>
k_themes == <<"t","h","e","m","e","s">>
k_license == <<"l","i","c","e","n","s","e">>
k_scene == <<"s","c","e","n","e">>

Str(s) == VStr(s)
EmptyList == VList(<< >>)
EmptyDict == VDict(<< >>)

\* iterating a value with `for`: [ok, xs]; not ok is a TypeError
Iter(v) ==
    CASE v.t = "list" -> [ok |-> TRUE, xs |-> v.xs]
      [] v.t = "dict" -> [ok |-> TRUE, xs |-> [i \in 1..Len(v.items) |-> VStr(v.items[i][1])]]
      [] v.t = "str" -> [ok |-> TRUE, xs |-> [i \in 1..Len(v.s) |-> VStr(<<v.s[i]>>)]]
      [] OTHER -> [ok |-> FALSE, xs |-> << >>]

NumericStr(s) == s # << >> /\ \A i \in 1..Len(s) : IsDigit(s[i])

\* float(v) succeeds
FloatOk(v) == IsNum(v) \/ v.t = "bool" \/ (IsStr(v) /\ NumericStr(v.s))

\* float(v)
Float(v) ==
    CASE IsNum(v) -> VFloat(v.n)
      [] v.t = "bool" -> VFloat(IF v.b THEN 1 ELSE 0)
      [] OTHER -> VFloat(ParseDigits(v.s, 1, 0).n)

(***************************************************************************)
(* _normalize_to_scene_schema, lines 47-112: the dicts built per scene     *)
(***************************************************************************)
\* lines 55-56, 59-60, 73-76: a bare dict is wrapped in a list
WrapDict(v) == IF IsDict(v) THEN VList(<<v>>) ELSE v

\* lines 64-65 and 94-95: a transition without a truthy name takes its type
NameTransition(t) ==
    IF ~HasKey(t, k_name) \/ ~Truthy(Item(t, k_name))
    THEN SetItem(t, k_name, Get(t, k_type, Str(<<"u","n","k","n","o","w","n">>)))
    ELSE t

\* lines 58-65 and 93-95: the scene's transitions, named (both loops)
SceneTransitions(sc) ==
    LET scene_transitions == WrapDict(Get(sc, k_transitions, EmptyList))
        ts == Iter(scene_transitions).xs
    IN  IF IsList(scene_transitions)
        THEN VList([i \in 1..Len(ts) |-> NameTransition(NameTransition(ts[i]))])
        ELSE scene_transitions

\* lines 72-76: the action's effects come from the asset alone
AssetEffects(asset) ==
    LET effects == Get(asset, k_effects, EmptyList)
    IN  IF IsDict(effects) THEN VList(<<effects>>)
        ELSE IF effects.t = "none" THEN EmptyList
        ELSE effects

\* lines 78-80
AssetType(asset) ==
    LET asset_type == Lower(Get(asset, k_type, Str(<<"v","i","d","e","o">>)).s)
    IN  IF asset_type = <<"m","u","s","i","c">> THEN <<"a","u","d","i","o">> ELSE asset_type

\* lines 82-89
ActionOf(asset, idx, aidx, duration) ==
    VDict(<<
        <<k_id, Get(asset, k_id, Str(<<"a","c","t","i","o","n","-">> \o IntDigits(idx) \o <<"-">> \o IntDigits(aidx)))>>,
        <<k_type, Str(AssetType(asset))>>,
        <<k_startSec, Float(Get(asset, k_startSec, VInt(0)))>>,
        <<k_durationSec, Float(Get(asset, k_durationSec, duration))>>,
        <<k_props, Get(asset, k_props, SetItem(asset, k_src, Get(asset, k_src, Str(<< >>))))>>,
        <<k_effects, AssetEffects(asset)>>
    >>)

\* lines 97-102
RowOf(sc, idx, duration) ==
    LET assets == Iter(Get(sc, k_assets, EmptyList)).xs
    IN  VDict(<<
            <<k_id, Str(<<"r","o","w","-">> \o IntDigits(idx) \o <<"-","1">>)>>,
            <<k_kind, Str(<<"v","i","d","e","o">>)>>,
            <<k_actions, VList([aidx \in 1..Len(assets) |-> ActionOf(assets[aidx], idx, aidx, duration)])>>,
            <<k_transitions, SceneTransitions(sc)>>
        >>)

\* lines 105-111
SceneObj(sc, idx) ==
    LET duration == Get(sc, k_durationSec, VInt(3))
    IN  VDict(<<
            <<k_id, Get(sc, k_id, Str(<<"s","c","e","n","e","_">> \o IntDigits(idx)))>>,
            <<k_title, Get(sc, k_title, Str(<<"S","c","e","n","e"," ">> \o IntDigits(idx)))>>,
            <<k_description, Get(sc, k_description, Str(<< >>))>>,
            <<k_rows, VList(<<RowOf(sc, idx, duration)>>)>>,
            <<k_durationSec, duration>>
        >>)

\* an asset on which lines 72-89 raise
AssetRaises(asset, duration) ==
    \/ ~IsDict(asset)
    \/ ~IsStr(Get(asset, k_type, Str(<<"v","i","d","e","o">>)))
    \/ ~FloatOk(Get(asset, k_startSec, VInt(0)))
    \/ ~FloatOk(Get(asset, k_durationSec, duration))

\* a scene entry on which lines 50-112 raise
SceneRaises(sc) ==
    \/ ~IsDict(sc)
    \/ LET ts == Iter(WrapDict(Get(sc, k_transitions, EmptyList)))
       IN  ~ts.ok \/ \E i \in 1..Len(ts.xs) : ~IsDict(ts.xs[i])
    \/ LET as == Iter(Get(sc, k_assets, EmptyList))
       IN  ~as.ok \/ \E i \in 1..Len(as.xs) :
                        AssetRaises(as.xs[i], Get(sc, k_durationSec, VInt(3)))

\* lines 47-120 with raw_scene["scenes"] in place of raw_scene.get("scenes", [])
NormalizeRaisesOnMissingScenes(raw_scene) ==
    \/ ~IsDict(raw_scene)
    \/ ~HasKey(raw_scene, k_scenes)
    \/ ~IsDict(Get(raw_scene, k_plan, EmptyDict))
    \/ LET scs == Iter(Get(raw_scene, k_scenes, EmptyList))
       IN  ~scs.ok \/ \E i \in 1..Len(scs.xs) : SceneRaises(scs.xs[i])

\* raw input on which lines 47-120 raise before SceneSchema is constructed
NormalizeRaises(raw_scene) ==
    \/ ~IsDict(raw_scene)
    \/ ~IsDict(Get(raw_scene, k_plan, EmptyDict))
    \/ LET scs == Iter(Get(raw_scene, k_scenes, EmptyList))
       IN  ~scs.ok \/ \E i \in 1..Len(scs.xs) : SceneRaises(scs.xs[i])

\* lines 49-112: the list `scenes`
NormalizedScenes(raw_scene) ==
    LET scs == Iter(Get(raw_scene, k_scenes, EmptyList)).xs
    IN  VList([idx \in 1..Len(scs) |-> SceneObj(scs[idx], idx)])

\* line 114 with field-level defaulting of a missing meta
RawMetaDefaulted(raw_scene) == Get(raw_scene, k_meta, VDict(<< <<k_totalDurationSec, VInt(0)>> >>))

\* line 114
RawMeta(raw_scene) == Get(raw_scene, k_meta, EmptyDict)

(***************************************************************************)
(* schema.py: validation (a field outside the model is ignored) and        *)
(* model_dump()                                                            *)
(***************************************************************************)
\* a float field takes a number, a bool or a numeric str
FloatField(v) == FloatOk(v)
\* Optional[str]
OptStrField(v) == v.t = "none" \/ IsStr(v)
\* Optional[int]
OptIntField(v) == v.t \in {"none", "int", "float", "bool"} \/ (IsStr(v) /\ NumericStr(v.s))
OptInt(v) == IF v.t = "none" THEN v ELSE VInt(Float(v).n)

ActionTypes == {<<"v","i","d","e","o">>, <<"i","m","a","g","e">>, <<"a","u","d","i","o">>, <<"t","e","x","t">>}
RowKinds == ActionTypes \cup {<<"c","a","p","t","i","o","n","s">>}

\* class Effect
ValidEffect(v) ==
    /\ IsDict(v)
    /\ HasKey(v, k_name) /\ IsStr(Item(v, k_name))
    /\ HasKey(v, k_props) => IsDict(Item(v, k_props))

Effect(v) == VDict(<< <<k_name, Item(v, k_name)>>, <<k_props, Get(v, k_props, EmptyDict)>> >>)

\* Optional[List[Effect]] = Field(default_factory=list)
ValidEffects(v) == v.t = "none" \/ (IsList(v) /\ \A i \in 1..Len(v.xs) : ValidEffect(v.xs[i]))

Effects(v) == IF v.t = "none" THEN v ELSE VList([i \in 1..Len(v.xs) |-> Effect(v.xs[i])])

\* class Action
ValidAction(v) ==
    /\ IsDict(v)
    /\ HasKey(v, k_id) /\ IsStr(Item(v, k_id))
    /\ HasKey(v, k_type) /\ IsStr(Item(v, k_type)) /\ Item(v, k_type).s \in ActionTypes
    /\ HasKey(v, k_startSec) /\ FloatField(Item(v, k_startSec))
    /\ HasKey(v, k_durationSec) /\ FloatField(Item(v, k_durationSec))
    /\ HasKey(v, k_props) /\ IsDict(Item(v, k_props))
    /\ ValidEffects(Get(v, k_effects, EmptyList))

Action(v) ==
    VDict(<<
        <<k_id, Item(v, k_id)>>,
        <<k_type, Item(v, k_type)>>,
        <<k_startSec, Float(Item(v, k_startSec))>>,
        <<k_durationSec, Float(Item(v, k_durationSec))>>,
        <<k_props, Item(v, k_props)>>,
        <<k_effects, Effects(Get(v, k_effects, EmptyList))>>
    >>)

\* class Row
ValidRow(v) ==
    /\ IsDict(v)
    /\ HasKey(v, k_id) /\ IsStr(Item(v, k_id))
    /\ HasKey(v, k_kind) /\ IsStr(Item(v, k_kind)) /\ Item(v, k_kind).s \in RowKinds
    /\ HasKey(v, k_actions) /\ IsList(Item(v, k_actions))
    /\ \A i \in 1..Len(Item(v, k_actions).xs) : ValidAction(Item(v, k_actions).xs[i])
    /\ ValidEffects(Get(v, k_transitions, EmptyList))

Row(v) ==
    LET actions == Item(v, k_actions).xs
    IN  VDict(<<
            <<k_id, Item(v, k_id)>>,
            <<k_kind, Item(v, k_kind)>>,
            <<k_actions, VList([i \in 1..Len(actions) |-> Action(actions[i])])>>,
            <<k_transitions, Effects(Get(v, k_transitions, EmptyList))>>
        >>)

\* class SceneItem
ValidSceneItem(v) ==
    /\ IsDict(v)
    /\ HasKey(v, k_id) /\ IsStr(Item(v, k_id))
    /\ OptStrField(Get(v, k_title, Str(<< >>)))
    /\ HasKey(v, k_durationSec) /\ FloatField(Item(v, k_durationSec))
    /\ HasKey(v, k_rows) /\ IsList(Item(v, k_rows))
    /\ \A i \in 1..Len(Item(v, k_rows).xs) : ValidRow(Item(v, k_rows).xs[i])

SceneItem(v) ==
    LET rows == Item(v, k_rows).xs
    IN  VDict(<<
            <<k_id, Item(v, k_id)>>,
            <<k_title, Get(v, k_title, Str(<< >>))>>,
            <<k_durationSec, Float(Item(v, k_durationSec))>>,
            <<k_rows, VList([i \in 1..Len(rows) |-> Row(rows[i])])>>
        >>)

DefaultFps == 30

\* class Meta
ValidMeta(v) ==
    /\ IsDict(v)
    /\ OptStrField(Get(v, k_aspectRatio, VNone))
    /\ OptIntField(Get(v, k_fps, VNone))
    /\ HasKey(v, k_totalDurationSec) /\ FloatField(Item(v, k_totalDurationSec))
    /\ OptStrField(Get(v, k_generator, VNone))
    /\ OptStrField(Get(v, k_version, VNone))

Meta(v) ==
    VDict(<<
        <<k_aspectRatio, Get(v, k_aspectRatio, Str(<<"1","6",":","9">>))>>,
        <<k_fps, OptInt(Get(v, k_fps, VInt(DefaultFps)))>>,
        <<k_totalDurationSec, Float(Item(v, k_totalDurationSec))>>,
        <<k_generator, Get(v, k_generator, Str(<<"s","c","e","n","e","-","b","u","i","l","d","e","r","-","a","g","e","n","t">>))>>,
        <<k_version, Get(v, k_version, Str(<<"1",".","0",".","0">>))>>
    >>)

\* class SceneSchema: validation of SceneSchema(plan=..., scenes=scenes, meta=meta)
ValidSceneSchema(scenes, meta) ==
    /\ IsList(scenes)
    /\ \A i \in 1..Len(scenes.xs) : ValidSceneItem(scenes.xs[i])
    /\ ValidMeta(meta)

\* SceneSchema(...).model_dump()
SceneSchema(scenes, meta) ==
    VDict(<<
        <<k_scenes, VList([i \in 1..Len(scenes.xs) |-> SceneItem(scenes.xs[i])])>>,
        <<k_meta, Meta(meta)>>
    >>)

\* _normalize_to_scene_schema(raw_scene): [ok, err, val], val the model_dump()
NormalizeToSceneSchema(raw_scene) ==
    IF ~IsDict(raw_scene)
    THEN [ok |-> FALSE, err |-> "AttributeError", val |-> VNone]
    ELSE IF NormalizeRaises(raw_scene)
    THEN [ok |-> FALSE, err |-> "TypeError", val |-> VNone]
    ELSE IF ~ValidSceneSchema(NormalizedScenes(raw_scene), RawMeta(raw_scene))
    THEN [ok |-> FALSE, err |-> "ValidationError", val |-> VNone]
    ELSE [ok |-> TRUE, err |-> "none",
          val |-> SceneSchema(NormalizedScenes(raw_scene), RawMeta(raw_scene))]

\* _make_plan(prompt, normalized_scene)
MakePlan(prompt_, normalized_scene) ==
    LET scenes_count == Len(Get(normalized_scene, k_scenes, EmptyList).xs)
    IN  VDict(<<
            <<k_scenesCount, VInt(scenes_count)>>,
            <<k_notes, Str(<<"G","e","n","e","r","a","t","e","d"," ">> \o IntDigits(scenes_count) \o <<" ","s","c","e","n","e","(","s",")"," ","f","r","o","m"," ","p","r","o","m","p","t">>)>>,
            <<k_prompt, Str(prompt_)>>
        >>)

(***************************************************************************)
(* run_pipeline: inputs                                                    *)
(***************************************************************************)
MaxScenes == 2

Prompts == { <<"h","i">>, <<"a","}","backtick","\"","{">> }

\* SceneInputConstraints(totalDurationSec, aspectRatio, fps); language and
\* deterministic are not read by the pipeline outside the external call
Constraints(totalDurationSec, aspectRatio, fps) ==
    VDict(<< <<k_totalDurationSec, totalDurationSec>>,
             <<k_aspectRatio, aspectRatio>>,
             <<k_fps, fps>> >>)

ConstraintsSet ==
    { VNone }
    \cup { Constraints(d, Str(<<"1","6",":","9">>), VInt(30)) : d \in {VNone, VInt(0), VInt(8)} }
    \cup { Constraints(VInt(15), Str(<<"4",":","3">>), VInt(24)),
           Constraints(VInt(10), VNone, VInt(0)) }

\* uuid.uuid4().hex[:8]
ProcessIds == { <<"0","a","1","b","2","c","3","d">>, <<"f","f","e","e","0","0","1","1">> }

D2(k1, v1, k2, v2) == VDict(<< <<k1, v1>>, <<k2, v2>> >>)

\* raw scene entries as the external model may write them
SceneVariants == {
    \* bare-dict effects and transitions
    VDict(<< <<k_assets, VList(<< D2(k_type, Str(<<"v","i","d","e","o">>), k_src, Str(<<"a",".","m","p","4">>)) >>)>>,
             <<k_effects, D2(k_type, Str(<<"c","a","m","e","r","a">>), k_name, Str(<<"z","o","o","m">>))>>,
             <<k_transitions, VDict(<< <<k_type, Str(<<"f","a","d","e">>)>> >>)>>,
             <<k_durationSec, VInt(4)>> >>),
    \* lists; an asset with its own effect, an asset with null effects
    VDict(<< <<k_id, Str(<<"s","2">>)>>,
             <<k_title, Str(<<"T">>)>>,
             <<k_assets, VList(<<
                 VDict(<< <<k_type, Str(<<"M","u","s","i","c">>)>>, <<k_src, Str(<<"x",".","m","p","3">>)>>,
                          <<k_effects, VDict(<< <<k_name, Str(<<"e","c","h","o">>)>> >>)>> >>),
                 VDict(<< <<k_type, Str(<<"t","e","x","t">>)>>, <<k_src, Str(<<"h","i">>)>>,
                          <<k_effects, VNone>> >>) >>)>>,
             <<k_effects, VList(<< D2(k_type, Str(<<"c","a","m","e","r","a">>), k_name, Str(<<"z","o","o","m">>)) >>)>>,
             <<k_transitions, VList(<< VDict(<< >>),
                                       D2(k_name, Str(<<"c","u","t">>), k_type, Str(<<"f","a","d","e">>)) >>)>> >>),
    \* an empty name beside a type and another field
    VDict(<< <<k_assets, EmptyList>>,
             <<k_transitions, VDict(<< <<k_name, Str(<< >>)>>, <<k_type, Str(<<"w","i","p","e">>)>>,
                                       <<<<"d","i","r","e","c","t","i","o","n">>, Str(<<"o","u","t">>)>> >>)>> >>),
    \* everything defaulted
    VDict(<< >>),
    \* a type outside the schema's Literal
    VDict(<< <<k_assets, VList(<< D2(k_type, Str(<<"h","o","l","o","g","r","a","m">>), k_src, Str(<<"h">>)) >>)>> >>),
    \* explicit props with a license block, explicit timing
    VDict(<< <<k_assets, VList(<<
                 VDict(<< <<k_type, Str(<<"i","m","a","g","e">>)>>,
                          <<k_props, D2(k_src, Str(<<"i",".","p","n","g">>),
                                        k_license, D2(<<"s","o","u","r","c","e">>, Str(<<"x">>), k_license, Str(<<"f","r","e","e">>)))>>,
                          <<k_startSec, VInt(1)>>, <<k_durationSec, VInt(2)>> >>) >>)>>,
             <<k_effects, D2(k_type, Str(<<"c","o","l","o","r">>), k_name, Str(<<"t","i","n","t">>))>>,
             <<k_durationSec, VInt(5)>> >>)
}

RECURSIVE SeqsUpTo(_, _)
\* the sequences over S of length at most n
SeqsUpTo(S, n) ==
    IF n = 0 THEN { << >> }
    ELSE LET shorter == SeqsUpTo(S, n - 1)
         IN  shorter \cup { Append(s, e) : s \in shorter, e \in S }

RawMetas == { D2(k_totalDurationSec, VInt(4), k_fps, VInt(24)) }

\* documents the external model may write: up to MaxScenes scenes with a meta, one
\* scene without, and documents without "scenes", "meta" or a mapping for "plan"
RawDocs ==
    LET plan == <<k_plan, VDict(<< <<k_summary, Str(<<"s">>)>> >>)>>
        sceneLists == { <<k_scenes, VList(scs)>> : scs \in SeqsUpTo(SceneVariants, MaxScenes) }
        metas == { <<k_meta, m>> : m \in RawMetas }
        single == { <<k_scenes, VList(<<sc>>)>> : sc \in SceneVariants }
    IN  { VDict(<<plan, s, m>>) : s \in sceneLists, m \in metas }
        \cup { VDict(<<plan, s>>) : s \in single }
        \cup { VDict(<<plan, m>>) : m \in metas }
        \cup { VDict(<< >>), VDict(<< <<k_scenes, EmptyList>> >>),
               VDict(<< <<k_meta, D2(k_totalDurationSec, VInt(4), k_fps, VInt(24))>> >>),
               VDict(<< <<k_plan, Str(<<"p">>)>>, <<k_meta, D2(k_totalDurationSec, VInt(4), k_fps, VInt(24))>> >>),
               VDict(<< <<k_scenes, EmptyList>>, <<k_meta, VDict(<< <<k_fps, VInt(24)>> >>)>> >>) }

Fenced(text) == <<"backtick","backtick","backtick","j","s","o","n","\n">> \o text \o <<"\n","backtick","backtick","backtick">>
InProse(text) == <<"S","u","r","e",":"," ">> \o text \o <<" ","o","k">>

\* texts that are not JSON, or JSON that is no mapping
OtherTexts == { <<"n","o">>, <<"{">>, <<"backtick","backtick","backtick","j","s","o","n","\n","backtick","backtick","backtick">>, <<"[","1",","," ","2","]">>,
                <<"{","\"","s","c","e","n","e","s","\"",":"," ","[","]",",","}">>, <<"backtick","backtick","backtick"," ","{","\"","a","\"",":"," ","n","u","l","}"," ","backtick","backtick","backtick">> }

BlankTexts == { << >>, <<" ","\n">> }

ModelTexts ==
    { Dumps(d) : d \in RawDocs }
    \cup { Fenced(Dumps(d)) : d \in { VDict(<< <<k_scenes, EmptyList>> >>), VDict(<< >>) } }
    \cup { InProse(Dumps(d)) : d \in { VDict(<< <<k_scenes, EmptyList>>, <<k_meta, m>> >>) : m \in RawMetas } }
    \cup OtherTexts
    \cup BlankTexts

\* candidates[0].content.parts is empty
NoParts == <<"<NoParts>">>
NoResponse == [text |-> None, candidates |-> <<"<NoResponse>">>]

\* response.text is None here when the attribute is missing
Responses ==
    { [text |-> t, candidates |-> << >>] : t \in ModelTexts \cup {None} }
    \cup { [text |-> t, candidates |-> <<c>>] :
             t \in {None, << >>},
             c \in {NoParts, << >>, <<" ","n","o"," ">>, <<"\n","{","\"","m","e","t","a","\"",":"," ","{","\"","t","o","t","a","l","D","u","r","a","t","i","o","n","S","e","c","\"",":"," ","4","}","}","\n">>} }

(***************************************************************************)
(* run_pipeline, lines 133-211: the external call                          *)
(***************************************************************************)
\* line 214 checking None only
NoUsableOutputNoneOnly(raw) == raw = None

\* line 214 taking unparseable text for no output as well
NoUsableOutputOrUnparseable(raw) ==
    raw = None \/ raw = << >> \/ Strip(raw) = << >> \/ ~Loads(CleanGeminiJson(raw)).ok

\* line 214: `not raw_output or not raw_output.strip()`
NoUsableOutput(raw) == raw = None \/ raw = << >> \/ Strip(raw) = << >>

\* lines 205-208: raw_output taken from the response; [raised, raw]
OutputOf(resp) ==
    IF resp.text # None /\ resp.text # << >>
    THEN [raised |-> FALSE, raw |-> Strip(resp.text)]
    ELSE IF Len(resp.candidates) > 0
    THEN IF resp.candidates[1] = NoParts
         THEN [raised |-> TRUE, raw |-> << >>]
         ELSE [raised |-> FALSE, raw |-> Strip(resp.candidates[1])]
    ELSE [raised |-> FALSE, raw |-> None]

RunIdle ==
    /\ prompt = << >>
    /\ constraints = VNone
    /\ gemini_key = FALSE
    /\ genai = FALSE
    /\ adapter = "idle"
    /\ response = NoResponse
    /\ raw_output = None
    /\ mock_scene = VNone
    /\ cleaned_output = None
    /\ parsed = VNone
    /\ result = VNone
    /\ error = "none"
    /\ pc = "off"

Init ==
    /\ x = None /\ once = None /\ twice = None /\ san_pc = "off"
    /\ prompt \in Prompts
    /\ constraints \in ConstraintsSet
    /\ gemini_key \in BOOLEAN
    /\ genai \in BOOLEAN
    /\ adapter = "idle"
    /\ response = NoResponse
    /\ raw_output = None
    /\ mock_scene = VNone
    /\ cleaned_output = None
    /\ parsed = VNone
    /\ result = VNone
    /\ error = "none"
    /\ pc = "start"

\* line 136: no credential, the call is not attempted
NoKey ==
    /\ pc = "start" /\ ~gemini_key
    /\ adapter' = "no_key"
    /\ pc' = "called"
    /\ UNCHANGED <<san_vars, prompt, constraints, gemini_key, genai, response, raw_output,
                   mock_scene, cleaned_output, parsed, result, error>>

\* line 138: _get_gemini() returned None
NoLib ==
    /\ pc = "start" /\ gemini_key /\ ~genai
    /\ adapter' = "no_lib"
    /\ pc' = "called"
    /\ UNCHANGED <<san_vars, prompt, constraints, gemini_key, genai, response, raw_output,
                   mock_scene, cleaned_output, parsed, result, error>>

\* lines 209-211: anything in lines 140-208 raised
CallRaises ==
    /\ pc = "start" /\ gemini_key /\ genai
    /\ adapter' = "raised"
    /\ raw_output' = << >>
    /\ pc' = "called"
    /\ UNCHANGED <<san_vars, prompt, constraints, gemini_key, genai, response,
                   mock_scene, cleaned_output, parsed, result, error>>

\* lines 203-208: generate_content returned a response
CallReturns ==
    /\ pc = "start" /\ gemini_key /\ genai
    /\ \E resp \in Responses :
        /\ response' = resp
        /\ adapter' = IF OutputOf(resp).raised THEN "raised" ELSE "returned"
        /\ raw_output' = OutputOf(resp).raw
    /\ pc' = "called"
    /\ UNCHANGED <<san_vars, prompt, constraints, gemini_key, genai,
                   mock_scene, cleaned_output, parsed, result, error>>

(***************************************************************************)
(* run_pipeline, lines 213-242: the fallback document                      *)
(***************************************************************************)
MockDefaultDuration == 10

\* getattr(constraints, name, None), None too when constraints is None
ConstraintAttr(c, name) == IF c.t = "none" THEN VNone ELSE Get(c, name, VNone)

\* `constraints.f if constraints and getattr(constraints, f, None) else default`
FromConstraints(c, name, default) ==
    IF Truthy(ConstraintAttr(c, name)) THEN ConstraintAttr(c, name) ELSE default

\* line 236 with `is not None` in place of truthiness
MockMetaDurationIfNotNone(c) ==
    IF ConstraintAttr(c, k_totalDurationSec).t # "none"
    THEN ConstraintAttr(c, k_totalDurationSec) ELSE VInt(MockDefaultDuration)

\* line 232
MockSceneDuration(c) == FromConstraints(c, k_totalDurationSec, VInt(MockDefaultDuration))

\* line 236
MockMetaDuration(c) == FromConstraints(c, k_totalDurationSec, VInt(MockDefaultDuration))

\* lines 215-241
MockScene(prompt_, c, pid) ==
    VDict(<<
        <<k_processId, Str(<<"p","r","o","c","-">> \o pid)>>,
        <<k_plan, VDict(<<
            <<k_title, Str(<<"M","o","c","k"," ","P","l","a","n">>)>>,
            <<k_summary, Str(<<"F","a","l","l","b","a","c","k"," ","m","o","c","k"," ","p","l","a","n"," ","i","f"," ","L","L","M"," ","u","n","a","v","a","i","l","a","b","l","e",".">>)>>,
            <<k_themes, VList(<< Str(<<"m","o","c","k">>) >>)>> >>)>>,
        <<k_scenes, VList(<<
            VDict(<<
                <<k_id, Str(<<"1">>)>>,
                <<k_title, Str(<<"I","n","t","r","o">>)>>,
                <<k_description, Str(prompt_)>>,
                <<k_assets, VList(<<
                    D2(k_type, Str(<<"v","i","d","e","o">>), k_src, Str(<<"p","l","a","c","e","h","o","l","d","e","r","_","i","n","t","r","o",".","m","p","4">>)),
                    D2(k_type, Str(<<"t","e","x","t">>), k_src, Str(prompt_)) >>)>>,
                <<k_effects, VList(<< D2(k_type, Str(<<"t","r","a","n","s","i","t","i","o","n">>), k_name, Str(<<"f","a","d","e","I","n">>)) >>)>>,
                <<k_durationSec, MockSceneDuration(c)>> >>) >>)>>,
        <<k_meta, VDict(<<
            <<k_totalDurationSec, MockMetaDuration(c)>>,
            <<k_aspectRatio, FromConstraints(c, k_aspectRatio, Str(<<"1","6",":","9">>))>>,
            <<k_fps, FromConstraints(c, k_fps, VInt(DefaultFps))>>,
            <<k_language, Str(<<"e","n">>)>> >>)>>
    >>)

\* lines 214-242: no usable output, the fallback document is written
Fallback ==
    /\ pc = "called" /\ NoUsableOutput(raw_output)
    /\ \E pid \in ProcessIds :
        /\ mock_scene' = MockScene(prompt, constraints, pid)
        /\ raw_output' = Dumps(MockScene(prompt, constraints, pid))
    /\ pc' = "ready"
    /\ UNCHANGED <<san_vars, prompt, constraints, gemini_key, genai, adapter, response,
                   cleaned_output, parsed, result, error>>

\* line 214 false: the model's text is kept
KeepOutput ==
    /\ pc = "called" /\ ~NoUsableOutput(raw_output)
    /\ pc' = "ready"
    /\ UNCHANGED <<san_vars, prompt, constraints, gemini_key, genai, adapter, response,
                   raw_output, mock_scene, cleaned_output, parsed, result, error>>

(***************************************************************************)
(* run_pipeline, lines 244-255                                             *)
(***************************************************************************)
ParseError == "ValueError: Failed to parse LLM output as JSON"

\* lines 244-248
Parse ==
    /\ pc = "ready"
    /\ cleaned_output' = CleanGeminiJson(raw_output)
    /\ LET r == Loads(CleanGeminiJson(raw_output))
       IN  IF r.ok
           THEN parsed' = r.val /\ pc' = "parsed" /\ error' = error
           ELSE parsed' = parsed /\ pc' = "raised" /\ error' = ParseError
    /\ UNCHANGED <<san_vars, prompt, constraints, gemini_key, genai, adapter, response,
                   raw_output, mock_scene, result>>

\* lines 250-255
Normalize ==
    /\ pc = "parsed"
    /\ LET normalized == NormalizeToSceneSchema(parsed)
       IN  IF normalized.ok
           THEN /\ result' = D2(k_plan, MakePlan(prompt, normalized.val), k_scene, normalized.val)
                /\ pc' = "returned"
                /\ error' = error
           ELSE /\ result' = result
                /\ pc' = "raised"
                /\ error' = normalized.err
    /\ UNCHANGED <<san_vars, prompt, constraints, gemini_key, genai, adapter, response,
                   raw_output, mock_scene, cleaned_output, parsed>>

Next == NoKey \/ NoLib \/ CallRaises \/ CallReturns \/ Fallback \/ KeepOutput \/ Parse \/ Normalize

Spec == Init /\ [][Next]_vars

(***************************************************************************)
(* Properties of run_pipeline (Spec)                                       *)
(***************************************************************************)
\* a text that is absent, empty or whitespace only
Blank(text) == text = None \/ \A i \in 1..Len(text) : text[i] \in Whitespace

\* the external call gave no usable output: no credential, no library, an
\* exception, or a response without non-blank text
ModelUnavailable ==
    \/ adapter \in {"no_key", "no_lib", "raised"}
    \/ adapter = "returned" /\ Blank(OutputOf(response).raw)

\* the external call returned non-blank text
ModelGaveText == adapter = "returned" /\ ~Blank(OutputOf(response).raw)

Returned == pc = "returned"
Raised == pc = "raised"
Finished == Returned \/ Raised

ResultScenes == Item(Item(result, k_scene), k_scenes).xs
ResultMeta == Item(Item(result, k_scene), k_meta)
ResultPlan == Item(result, k_plan)
RowsOf(scene) == Item(scene, k_rows).xs
ActionsOf(row) == Item(row, k_actions).xs

RECURSIVE SumDurations(_)
\* sum(s["durationSec"] for s in scenes)
SumDurations(scenes) ==
    IF scenes = << >> THEN 0
    ELSE Item(Head(scenes), k_durationSec).n + SumDurations(Tail(scenes))

\* C2: every way the external call yields no usable output ends in the fallback
\* document being generated and the pipeline returning {plan, scene}; run_pipeline
\* never raises in that case
UnavailableEndsInFallback ==
    ModelUnavailable =>
        /\ pc # "raised" /\ error = "none"
        /\ pc = "called" => NoUsableOutput(raw_output)
        /\ pc \in {"ready", "parsed"} => mock_scene # VNone
        /\ pc = "returned" =>
              /\ mock_scene # VNone
              /\ HasKey(result, k_plan) /\ HasKey(result, k_scene)
              /\ Len(ResultScenes) = 1

\* C2 witness: the external call raised and the pipeline returned the fallback
UnavailableEndsInFallbackWitness ==
    /\ adapter = "raised"
    /\ Returned
    /\ mock_scene # VNone
    /\ Item(ResultScenes[1], k_title) = Str(<<"I","n","t","r","o">>)

\* C3: with the external model unavailable, the scenes' durations sum to
\* meta.totalDurationSec (the values are integral, so equal after round(_, 2)
\* exactly when equal)
DurationReconciled ==
    (Returned /\ ModelUnavailable) =>
        SumDurations(ResultScenes) = Item(ResultMeta, k_totalDurationSec).n

\* C3 witness: a fallback run with totalDurationSec = 0 returned
DurationReconciledWitness ==
    /\ Returned /\ ModelUnavailable
    /\ ConstraintAttr(constraints, k_totalDurationSec) = VInt(0)
    /\ SumDurations(ResultScenes) = MockDefaultDuration

\* C4 (as claimed): with the external model unavailable, every action of the
\* returned document has props.license with license = "free"
LicensePresent ==
    (Returned /\ ModelUnavailable) =>
        \A s \in 1..Len(ResultScenes) :
        \A r \in 1..Len(RowsOf(ResultScenes[s])) :
        \A a \in 1..Len(ActionsOf(RowsOf(ResultScenes[s])[r])) :
            LET license_info == Get(Item(ActionsOf(RowsOf(ResultScenes[s])[r])[a], k_props),
                                    k_license, EmptyDict)
            IN  /\ IsDict(license_info)
                /\ HasKey(license_info, k_license)
                /\ Item(license_info, k_license) = Str(<<"f","r","e","e">>)

\* C5 (as claimed): the fallback returns one scene with one row of a video and a
\* text action, plan.scenesCount = 1, and the scene lasts totalDurationSec
\* whenever that is provided (0 included), 10 only when it is not
FallbackShape ==
    (Returned /\ ModelUnavailable) =>
        /\ Len(ResultScenes) = 1
        /\ Len(RowsOf(ResultScenes[1])) = 1
        /\ LET actions == ActionsOf(RowsOf(ResultScenes[1])[1])
           IN  /\ Len(actions) = 2
               /\ Item(actions[1], k_type) = Str(<<"v","i","d","e","o">>)
               /\ Item(actions[2], k_type) = Str(<<"t","e","x","t">>)
        /\ Item(ResultPlan, k_scenesCount) = VInt(1)
        /\ Item(ResultScenes[1], k_durationSec).n =
              IF ConstraintAttr(constraints, k_totalDurationSec).t = "none"
              THEN 10
              ELSE ConstraintAttr(constraints, k_totalDurationSec).n

\* the raw scene entries given to the normalizer
ParsedScenes == Get(parsed, k_scenes, EmptyList).xs

\* C6 (as claimed): a raw scene whose effects is a bare mapping gives each
\* action built from an asset without effects of its own exactly that one effect
SceneEffectsWrapped ==
    Returned =>
        \A idx \in 1..Len(ParsedScenes) :
            LET sc == ParsedScenes[idx]
                assets == Get(sc, k_assets, EmptyList).xs
                actions == ActionsOf(RowsOf(ResultScenes[idx])[1])
            IN  (HasKey(sc, k_effects) /\ IsDict(Item(sc, k_effects))) =>
                    \A aidx \in 1..Len(assets) :
                        ~HasKey(assets[aidx], k_effects) =>
                            /\ Len(Item(actions[aidx], k_effects).xs) = 1
                            /\ Item(Item(actions[aidx], k_effects).xs[1], k_name)
                                   = Item(Item(sc, k_effects), k_name)

\* the normalizer was given a mapping whose "scenes" is the empty list
ParsedEmptyScenes ==
    /\ IsDict(parsed) /\ HasKey(parsed, k_scenes)
    /\ Item(parsed, k_scenes) = EmptyList
    /\ IsDict(Get(parsed, k_plan, EmptyDict))

ParsedWithoutScenes == IsDict(parsed) /\ ~HasKey(parsed, k_scenes)

\* C8 (as claimed): normalizing a mapping without "scenes" always fails
MissingScenesFails ==
    (Finished /\ ParsedWithoutScenes) => Raised

\* C8 (amended): a mapping without "scenes" is normalized as if "scenes" were
\* empty: it fails only when its meta does not validate (as for {}) or its plan is
\* no mapping, and otherwise yields a document with no scenes
MissingScenesIsEmpty ==
    (Finished /\ ParsedWithoutScenes) =>
        /\ Raised <=> \/ ~IsDict(Get(parsed, k_plan, EmptyDict))
                      \/ ~ValidMeta(Get(parsed, k_meta, EmptyDict))
        /\ parsed = EmptyDict => Raised /\ error = "ValidationError"
        /\ Returned => /\ ResultScenes = << >>
                       /\ Item(ResultPlan, k_scenesCount) = VInt(0)

\* C8 witness: a mapping with a valid meta and no "scenes" returned a document
MissingScenesIsEmptyWitness ==
    /\ Returned /\ ParsedWithoutScenes
    /\ HasKey(parsed, k_meta)
    /\ ResultScenes = << >>

\* transition.name if truthy, else transition.type, else "unknown"
DerivedName(t) ==
    IF HasKey(t, k_name) /\ Truthy(Item(t, k_name)) THEN Item(t, k_name)
    ELSE IF HasKey(t, k_type) THEN Item(t, k_type)
    ELSE Str(<<"u","n","k","n","o","w","n">>)

\* C9 (as claimed): each normalized transition keeps the raw transition's own
\* fields and carries the derived name
TransitionKeepsFields ==
    Returned =>
        \A idx \in 1..Len(ParsedScenes) :
            LET raw == WrapDict(Get(ParsedScenes[idx], k_transitions, EmptyList)).xs
                out == Item(RowsOf(ResultScenes[idx])[1], k_transitions).xs
            IN  /\ Len(out) = Len(raw)
                /\ \A j \in 1..Len(raw) :
                    /\ Item(out[j], k_name) = DerivedName(raw[j])
                    /\ \A f \in 1..Len(raw[j].items) :
                          raw[j].items[f][1] # k_name =>
                              /\ HasKey(out[j], raw[j].items[f][1])
                              /\ Item(out[j], raw[j].items[f][1]) = raw[j].items[f][2]

\* C10: non-blank model text that is not JSON after sanitization ends in the
\* parse failure, never in the fallback document nor a {plan, scene} result; the
\* fallback document is built only when the model gave no usable output
ParseFailureSurfaced ==
    /\ (ModelGaveText /\ ~Loads(CleanGeminiJson(OutputOf(response).raw)).ok) =>
            /\ mock_scene = VNone /\ result = VNone
            /\ pc \in {"called", "ready", "raised"}
            /\ pc = "called" => ~NoUsableOutput(raw_output)
            /\ pc = "raised" => error = ParseError
    /\ mock_scene # VNone => ModelUnavailable

\* C10 witness: fenced text that is not JSON ended in the parse failure
ParseFailureSurfacedWitness ==
    /\ Raised /\ error = ParseError
    /\ ModelGaveText
    /\ StartsWith(response.text, Fence)
    /\ mock_scene = VNone


(***************************************************************************)
(* SpecSanitizer: the sanitizer applied once and twice to bounded strings  *)
(***************************************************************************)
MaxBodyLen == 4

SanAlphabet == {"backtick", "{", "}", " ", "j", "s", "o", "n"}

SanPrefixes == { << >>, <<"backtick","backtick","backtick">>, <<"backtick","backtick","backtick","j","s","o","n">>, <<" ","backtick","backtick","backtick","J","S","O","N","\n">> }

SanInputs == { p \o b : p \in SanPrefixes, b \in SeqsUpTo(SanAlphabet, MaxBodyLen) }

SanInit ==
    /\ x \in SanInputs
    /\ once = None
    /\ twice = None
    /\ san_pc = "in"
    /\ RunIdle

SanitizeOnce ==
    /\ san_pc = "in"
    /\ once' = CleanGeminiJson(x)
    /\ san_pc' = "once"
    /\ UNCHANGED <<x, twice, run_vars>>

SanitizeTwice ==
    /\ san_pc = "once"
    /\ twice' = CleanGeminiJson(once)
    /\ san_pc' = "twice"
    /\ UNCHANGED <<x, once, run_vars>>

SanNext == SanitizeOnce \/ SanitizeTwice

SpecSanitizer == SanInit /\ [][SanNext]_vars

\* C1: the sanitizer is idempotent: sanitizing the sanitized text changes nothing
SanitizerIdempotent == san_pc = "twice" => twice = once

\* C1 witness: a fenced, tagged input whose braces were sliced out, sanitized twice
SanitizerIdempotentWitness ==
    /\ san_pc = "twice"
    /\ StartsWith(x, <<"backtick","backtick","backtick","j","s","o","n">>)
    /\ once = <<"{"," ","}">>
    /\ once # x
====
